---- MODULE Spec2Model ----
(***************************************************************************)
(* State-machine model of the EnDora conditional video diffusion programs: *)
(*   src/sample/sample_cond.py  (the sampling program)                     *)
(*   src/train_cond.py          (the training program)                     *)
(*                                                                         *)
(* Four specifications share the actions below:                            *)
(*   SpecSample  the sampling program, from its entry point to its exit    *)
(*   SpecTrain   one training process, from the pretrained load to "Done!" *)
(*   SpecLoad    the three checkpoint loads, over every checkpoint key set *)
(*   SpecDDP     the data-parallel processes around the checkpoint barrier *)
(*                                                                         *)
(* Real-valued quantities are kept as integers in tenths (cfg_scale 1.0 is *)
(* 10, prr_weight 0.1 is 1, a loss of 1.3 is 13).                          *)
(***************************************************************************)
EXTENDS Integers, Sequences, FiniteSets, TLC

(************************* bounds of the model ****************************)
\* T: the number of timesteps of the un-respaced schedule (1000 in the
\* program, create_diffusion's default), scaled down.
NumTimesteps == 4
\* args.num_classes: labels are drawn from 0 .. num_classes - 1
NumClasses == 2
\* largest max_train_steps tried (counted from the start step)
MaxTrainSteps == 3
\* largest len(loader) tried
MaxLoaderLen == 2
\* largest rank of a data-parallel process (world size - 1)
MaxRank == 1
\* number of training steps a data-parallel run performs
DDPSteps == 3

(************************* program constants ******************************)
FirstClip == 1
LastClip == 16
NullLabel == 101
ResumeStep == 20000
DefaultPrrWeight == 1
PrrSentinel == -1
ZfillWidth == 2
CkptNameWidth == 7
WorldSize == 1

None == "None"

Tenths(x) == 10 * x

VARIABLES
    \* ---- sampling program ----
    s_pc,           \* position in sample_cond.py
    argv_ckpt,      \* value argparse gives --ckpt ("" when omitted)
    args,           \* the OmegaConf config object of the sampling program
    ckpt_file,      \* content of the checkpoint file at "ckpt.pt"
    s_model,        \* the sampling network's state dict
    model_built,    \* get_models(args) has run
    exit_status,    \* "running" or the process's exit status
    idx,            \* clip index of the for loop
    z,              \* initial noise batch of this iteration
    sample_fn,      \* model.forward or model.forward_with_cfg
    model_kwargs,   \* conditioning bundle
    x,              \* latent batch inside the reverse loop
    i,              \* index of the next reverse step
    visited,        \* timesteps visited in this run of the reverse loop
    calls,          \* <<function, batch size>> of every network call
    pred,           \* last prediction used by the sampler (tenths)
    eps,            \* last <<conditional, unconditional>> network outputs
    samples,        \* the local variable samples (<<>> while unbound)
    files,          \* video files on disk: path -> record
    nwrites,        \* number of imageio.mimwrite calls
    s_log           \* keys the sampling load reported as ignored

sampleVars == <<s_pc, argv_ckpt, args, ckpt_file, s_model, model_built,
                exit_status, idx, z, sample_fn, model_kwargs, x, i, visited,
                calls, pred, eps, samples, files, nwrites, s_log>>

VARIABLES
    \* ---- one training process ----
    t_pc,           \* position in train_cond.py
    cfg,            \* the training config (args) and command line
    loader_len,     \* len(loader)
    pre_file,       \* content of the file at args.pretrained
    res_file,       \* content of the file at args.resume_from_checkpoint
    model,          \* the live network's state dict
    ema,            \* the EMA network, as the sequence of snapshots averaged
    train_steps, log_steps, running_loss,
    first_epoch, num_train_epochs,
    epoch, step,    \* the two loop counters
    t,              \* timestep indices drawn for this step
    loss_dict,      \* what diffusion.training_losses returned
    prr_computed,   \* the representation term was computed in this step
    loss,           \* the loss that is back-propagated (tenths)
    loss_calls,     \* number of training_losses invocations
    opt_steps,      \* number of opt.step() calls
    ema_updates,    \* number of update_ema calls inside the loop
    saved,          \* checkpoint files written
    t_log,          \* log lines: ignored keys, log events
    t_status        \* "running", "done" or the exception that ended main

trainVars == <<t_pc, cfg, loader_len, pre_file, res_file, model, ema,
               train_steps, log_steps, running_loss, first_epoch,
               num_train_epochs, epoch, step, t, loss_dict, prr_computed,
               loss, loss_calls, opt_steps, ema_updates, saved, t_log,
               t_status>>

VARIABLES
    \* ---- data-parallel processes ----
    d_cfg,          \* log_every and ckpt_every
    d_pc,           \* rank -> position in the training step
    d_steps,        \* rank -> train_steps
    d_begun,        \* rank -> number of training steps begun
    d_coll,         \* rank -> number of collectives entered
    d_barriers,     \* rank -> number of checkpoint barriers entered
    d_files         \* checkpoint files: records with their write state

ddpVars == <<d_cfg, d_pc, d_steps, d_begun, d_coll, d_barriers, d_files>>

vars == <<sampleVars, trainVars, ddpVars>>

(************************* strings and numbers ****************************)
DigitChars == <<"0", "1", "2", "3", "4", "5", "6", "7", "8", "9">>

\* str(n) for n >= 0: the decimal digits, most significant first
RECURSIVE Str(_)
Str(n) ==
    IF n < 10 THEN <<DigitChars[n + 1]>>
    ELSE Str(n \div 10) \o <<DigitChars[(n % 10) + 1]>>

DigitValue(c) == CHOOSE d \in 0..9 : DigitChars[d + 1] = c

\* int(s): the number a digit string denotes
RECURSIVE ParseInt(_)
ParseInt(s) ==
    IF Len(s) = 0 THEN 0
    ELSE 10 * ParseInt(SubSeq(s, 1, Len(s) - 1)) + DigitValue(s[Len(s)])

\* s.zfill(w): pad with zeros on the left up to width w
RECURSIVE zfill(_, _)
zfill(s, w) == IF Len(s) >= w THEN s ELSE zfill(<<"0">> \o s, w)

\* os.path.join(save_video_path, 'sample_' + str(idx).zfill(2) + '.mp4')
video_save_path(n) == <<"sample_">> \o zfill(Str(n), ZfillWidth) \o <<".mp4">>

\* the exit status of a process that has not ended
NoStatus == 0 - 1
\* the exit status after an uncaught Python exception
Uncaught == 0 + 1

\* exit(n): the status the parent sees
ExitCode(n) == n % 256

(************************* state dicts ************************************)
ModelKeys == {"pos_embed", "blocks"}
ExtraKeys == {"y_embedder"}
AllKeys == ModelKeys \cup ExtraKeys

\* a freshly constructed network: every parameter at its initial value
FreshModel == [k \in ModelKeys |-> <<"init", 0>>]

\* state dicts a checkpoint file may hold under "ema"
StateDicts(tag) == UNION {[K -> {<<tag, 0>>}] : K \in SUBSET AllKeys}

(***************************************************************************)
(*                       THE SAMPLING PROGRAM                              *)
(***************************************************************************)
CfgScales == {5, 10, 15, 20}                  \* 0.5, 1.0, 1.5, 2.0
SampleMethods == {"ddim", "ddpm", "dpm"}      \* the config takes any string
EpsValues == {1, 2}                           \* network outputs

\* An initial state of the sampling program: started from the command line
\* (__main__ overwrites args.ckpt by --ckpt) or by a call of main(args).
SampleStart(dicts) ==
    /\ s_pc \in {"cli", "main"}
    /\ \E ck \in {None, "ckpt.pt"}, cs \in CfgScales, sm \in SampleMethods,
          ns \in 1..NumTimesteps :
          args = [ckpt |-> ck, cfg_scale |-> cs, sample_method |-> sm,
                  num_sampling_steps |-> ns]
    /\ argv_ckpt \in {"", "ckpt.pt"}
    /\ s_pc = "cli" => args.ckpt = None
    /\ s_pc = "main" => argv_ckpt = ""
    /\ \E sd \in dicts : ckpt_file = [ema |-> sd]
    /\ s_model = [k \in ModelKeys |-> <<"none", 0>>]
    /\ model_built = FALSE
    /\ exit_status = NoStatus
    /\ idx = 0
    /\ z = <<>> /\ x = <<>> /\ samples = <<>> /\ visited = <<>>
    /\ sample_fn = "none"
    /\ model_kwargs = [y |-> <<>>, cfg_scale |-> 0, y_image |-> <<>>]
    /\ i = 0
    /\ calls = {}
    /\ pred = 0 /\ eps = <<0, 0>>
    /\ files = {}
    /\ nwrites = 0
    /\ s_log = {}

SampleIdle ==
    /\ s_pc = "idle"
    /\ args = [ckpt |-> None, cfg_scale |-> 10, sample_method |-> "ddim",
               num_sampling_steps |-> 1]
    /\ argv_ckpt = ""
    /\ ckpt_file = [ema |-> FreshModel]
    /\ s_model = [k \in ModelKeys |-> <<"none", 0>>]
    /\ model_built = FALSE
    /\ exit_status = NoStatus
    /\ idx = 0
    /\ z = <<>> /\ x = <<>> /\ samples = <<>> /\ visited = <<>>
    /\ sample_fn = "none"
    /\ model_kwargs = [y |-> <<>>, cfg_scale |-> 0, y_image |-> <<>>]
    /\ i = 0
    /\ calls = {}
    /\ pred = 0 /\ eps = <<0, 0>>
    /\ files = {}
    /\ nwrites = 0
    /\ s_log = {}

\* variant: guidance already at scale 1.0
using_cfg_ge == args.cfg_scale >= Tenths(1)
\* using_cfg = args.cfg_scale > 1.0
using_cfg == args.cfg_scale > Tenths(1)

\* model.load_state_dict(sd): strict, so it raises unless the key sets agree
strict_ok(m, sd) == DOMAIN sd = DOMAIN m

\* variant: the un-respaced schedule, as create_diffusion("") gives
timestep_respacing_full == Str(NumTimesteps)
\* create_diffusion(str(args.num_sampling_steps)): the respacing string
timestep_respacing == Str(args.num_sampling_steps)

\* round(num / den), ties to the even neighbour as Python rounds
RoundHalfEven(num, den) ==
    LET q == num \div den
        r == num % den
    IN  IF 2 * r < den THEN q
        ELSE IF 2 * r > den THEN q + 1
        ELSE IF q % 2 = 0 THEN q ELSE q + 1

\* space_timesteps(T, S): the S timesteps kept of the original T, increasing
space_timesteps(T, S) ==
    [j \in 1..S |-> IF S <= 1 THEN 0
                    ELSE RoundHalfEven((j - 1) * (T - 1), S - 1)]

\* the respaced diffusion object: its timestep map and num_timesteps
timestep_map == space_timesteps(NumTimesteps, ParseInt(timestep_respacing))
num_timesteps == Len(timestep_map)

\* model.forward: the conditional prediction
forward(ec) == Tenths(ec)
\* model.forward_with_cfg: eps_uncond + scale * (eps_cond - eps_uncond)
forward_with_cfg(ec, eu, scale) == Tenths(eu) + scale * (ec - eu)

sampleRest == <<argv_ckpt, ckpt_file>>

\* __main__: parse the command line and overwrite the config's ckpt
Main_cli ==
    /\ s_pc = "cli"
    /\ args' = [args EXCEPT !.ckpt = argv_ckpt]
    /\ s_pc' = "main"
    /\ UNCHANGED <<sampleRest, s_model, model_built, exit_status, idx, z,
                   sample_fn, model_kwargs, x, i, visited, calls, pred, eps,
                   samples, files, nwrites, s_log>>
    /\ UNCHANGED <<trainVars, ddpVars>>

\* main: the checkpoint path check, exit(-1) when it is None
CheckCkpt ==
    /\ s_pc = "main"
    /\ IF args.ckpt = None
       THEN s_pc' = "exited" /\ exit_status' = ExitCode(0 - 1)
       ELSE s_pc' = "build" /\ UNCHANGED exit_status
    /\ UNCHANGED <<sampleRest, args, s_model, model_built, idx, z, sample_fn,
                   model_kwargs, x, i, visited, calls, pred, eps, samples,
                   files, nwrites, s_log>>
    /\ UNCHANGED <<trainVars, ddpVars>>

\* main: model = get_models(args).to(device)
BuildModel ==
    /\ s_pc = "build"
    /\ s_model' = FreshModel
    /\ model_built' = TRUE
    /\ s_pc' = "load"
    /\ UNCHANGED <<sampleRest, args, exit_status, idx, z, sample_fn,
                   model_kwargs, x, i, visited, calls, pred, eps, samples,
                   files, nwrites, s_log>>
    /\ UNCHANGED <<trainVars, ddpVars>>

\* main: states = torch.load(args.ckpt); model.load_state_dict(states['ema'])
LoadCkpt ==
    /\ s_pc = "load"
    /\ IF args.ckpt = "ckpt.pt" /\ strict_ok(s_model, ckpt_file.ema)
       THEN /\ s_model' = ckpt_file.ema
            /\ s_pc' = "clip"
            /\ idx' = FirstClip
            /\ UNCHANGED exit_status
       ELSE \* FileNotFoundError for "", RuntimeError for a key mismatch
            /\ s_pc' = "exited"
            /\ exit_status' = Uncaught
            /\ UNCHANGED <<s_model, idx>>
    /\ UNCHANGED <<sampleRest, args, model_built, z, sample_fn, model_kwargs,
                   x, i, visited, calls, pred, eps, samples, files, nwrites,
                   s_log>>
    /\ UNCHANGED <<trainVars, ddpVars>>

\* main, loop body up to model_kwargs["y_image"] = c
ClipSetup ==
    /\ s_pc = "clip"
    /\ \E label \in 0..(NumClasses - 1) :
         LET noise == <<"z", idx, 0>>
             c == <<"c", idx, 0>>
         IN  IF using_cfg
             THEN /\ z' = <<noise, c>>
                  /\ sample_fn' = "forward_with_cfg"
                  /\ model_kwargs' = [y |-> <<label, NullLabel>>,
                                      cfg_scale |-> args.cfg_scale,
                                      y_image |-> c]
             ELSE /\ z' = <<noise>>
                  /\ sample_fn' = "forward"
                  /\ model_kwargs' = [y |-> <<>>, cfg_scale |-> 0,
                                      y_image |-> c]
    /\ s_pc' = "sample"
    /\ UNCHANGED <<sampleRest, args, s_model, model_built, exit_status, idx,
                   x, i, visited, calls, pred, eps, samples, files, nwrites,
                   s_log>>
    /\ UNCHANGED <<trainVars, ddpVars>>

\* main: the if / elif on args.sample_method that starts the reverse loop
SampleDispatch ==
    /\ s_pc = "sample"
    /\ IF args.sample_method \in {"ddim", "ddpm"}
       THEN /\ x' = z
            /\ i' = num_timesteps - 1
            /\ visited' = <<>>
            /\ s_pc' = "loop"
       ELSE \* neither branch runs: samples is not assigned
            /\ s_pc' = "post"
            /\ UNCHANGED <<x, i, visited>>
    /\ UNCHANGED <<sampleRest, args, s_model, model_built, exit_status, idx,
                   z, sample_fn, model_kwargs, calls, pred, eps, samples,
                   files, nwrites, s_log>>
    /\ UNCHANGED <<trainVars, ddpVars>>

\* one reverse step of ddim_sample_loop / p_sample_loop
ReverseStep ==
    /\ s_pc = "loop"
    /\ \E ec \in EpsValues, eu \in EpsValues :
         /\ eps' = <<ec, eu>>
         /\ pred' = IF sample_fn = "forward_with_cfg"
                    THEN forward_with_cfg(ec, eu, model_kwargs.cfg_scale)
                    ELSE forward(ec)
    /\ calls' = calls \cup {<<sample_fn, Len(x)>>}
    /\ visited' = Append(visited,
                         [t |-> timestep_map[i + 1],
                          noise |-> args.sample_method = "ddpm" /\ i # 0])
    /\ x' = [j \in 1..Len(x) |-> <<x[j][1], x[j][2], x[j][3] + 1>>]
    /\ IF i = 0
       THEN samples' = x' /\ s_pc' = "post" /\ UNCHANGED i
       ELSE i' = i - 1 /\ UNCHANGED <<samples, s_pc>>
    /\ UNCHANGED <<sampleRest, args, s_model, model_built, exit_status, idx,
                   z, sample_fn, model_kwargs, files, nwrites, s_log>>
    /\ UNCHANGED <<trainVars, ddpVars>>

\* main: decode samples and write the video of this clip index
WriteVideo ==
    /\ s_pc = "post"
    /\ IF Len(samples) = 0
       THEN \* NameError: samples is not defined
            /\ s_pc' = "exited"
            /\ exit_status' = Uncaught
            /\ UNCHANGED <<files, nwrites, idx>>
       ELSE /\ files' = {f \in files : f.path # video_save_path(idx)}
                        \cup {[path |-> video_save_path(idx),
                               clip |-> idx,
                               latent |-> samples[1]]}
            /\ nwrites' = nwrites + 1
            /\ IF idx = LastClip
               THEN s_pc' = "done" /\ exit_status' = 0 /\ UNCHANGED idx
               ELSE s_pc' = "clip" /\ idx' = idx + 1 /\ UNCHANGED exit_status
    /\ UNCHANGED <<sampleRest, args, s_model, model_built, z, sample_fn,
                   model_kwargs, x, i, visited, calls, pred, eps, samples,
                   s_log>>
    /\ UNCHANGED <<trainVars, ddpVars>>

SampleNext ==
    \/ Main_cli \/ CheckCkpt \/ BuildModel \/ LoadCkpt \/ ClipSetup
    \/ SampleDispatch \/ ReverseStep \/ WriteVideo

(***************************************************************************)
(*                       ONE TRAINING PROCESS                              *)
(***************************************************************************)
MseValues == {1}
VbValues == {0, 1}
PrrValues == {PrrSentinel, 2}        \* values a computed term may take
BatchSizes == {1, 2}                 \* args.local_batch_size
LogEverys == {1, 2, 3}
CkptEverys == {1, 2}

NoLosses == [loss |-> 0, mse |-> 0, vb |-> 0, prr |-> 0]
NoEvent == [step |-> 0, epoch |-> 0, total |-> <<0, 1>>, mse |-> 0,
            vb |-> 0, prr |-> 0]

\* An initial state of a training process: the network is constructed,
\* ema = deepcopy(model), nothing is loaded yet.
TrainStart(pretrained, preDicts, resDicts, wrapped) ==
    /\ t_pc = "pretrained"
    /\ \E pt \in pretrained, rs \in {None, "res.pt"},
          ms \in 1..MaxTrainSteps, le \in LogEverys, ce \in CkptEverys,
          bs \in BatchSizes, beyond \in BOOLEAN :
          \* a run from step 0 is tried with small totals only
          /\ rs = None => ~beyond
          /\ cfg =
               [pretrained |-> pt, resume_from_checkpoint |-> rs,
                 max_train_steps |-> IF beyond THEN ResumeStep + ms ELSE ms,
                 log_every |-> le, ckpt_every |-> ce,
                 local_batch_size |-> bs, prr_weight |-> DefaultPrrWeight]
    /\ loader_len \in 0..MaxLoaderLen
    /\ \E sd \in preDicts, w \in wrapped :
          pre_file = IF w THEN [ema |-> sd] ELSE sd
    /\ \E sd \in resDicts : res_file = [ema |-> sd]
    /\ model = FreshModel
    /\ ema = <<FreshModel>>
    /\ train_steps = 0 /\ log_steps = 0 /\ running_loss = 0
    /\ first_epoch = 0 /\ num_train_epochs = 0
    /\ epoch = 0 /\ step = 0
    /\ t = <<>>
    /\ loss_dict = NoLosses
    /\ prr_computed = FALSE
    /\ loss = 0
    /\ loss_calls = 0 /\ opt_steps = 0 /\ ema_updates = 0
    /\ saved = {}
    /\ t_log = [ignored |-> {}, nevents |-> 0, last |-> NoEvent,
                since |-> <<>>]
    /\ t_status = "running"

TrainIdle ==
    /\ t_pc = "idle"
    /\ cfg = [pretrained |-> None, resume_from_checkpoint |-> None,
              max_train_steps |-> 1, log_every |-> 1, ckpt_every |-> 1,
              local_batch_size |-> 1, prr_weight |-> DefaultPrrWeight]
    /\ loader_len = 1
    /\ pre_file = [ema |-> FreshModel]
    /\ res_file = [ema |-> FreshModel]
    /\ model = FreshModel
    /\ ema = <<FreshModel>>
    /\ train_steps = 0 /\ log_steps = 0 /\ running_loss = 0
    /\ first_epoch = 0 /\ num_train_epochs = 0
    /\ epoch = 0 /\ step = 0
    /\ t = <<>>
    /\ loss_dict = NoLosses
    /\ prr_computed = FALSE
    /\ loss = 0
    /\ loss_calls = 0 /\ opt_steps = 0 /\ ema_updates = 0
    /\ saved = {}
    /\ t_log = [ignored |-> {}, nevents |-> 0, last |-> NoEvent,
                since |-> <<>>]
    /\ t_status = "running"

\* math.ceil(a / b) for a >= 0, b > 0
Ceil(a, b) == (a + b - 1) \div b

\* update_ema(ema, model, decay): ema = decay * ema + (1 - decay) * model;
\* with decay = 0 the average is the model itself
update_ema(e, m, decay0) == IF decay0 THEN <<m>> ELSE Append(e, m)

\* opt.step(): every parameter moves
opt_step(m) == [k \in DOMAIN m |-> <<m[k][1], m[k][2] + 1>>]

\* f"{checkpoint_dir}/{train_steps:07d}.pt"
checkpoint_path(n) == zfill(Str(n), CkptNameWidth) \o <<".pt">>

trainIn == <<cfg, loader_len, pre_file, res_file>>

\* main: "if args.pretrained:" load by key intersection
LoadPretrained ==
    /\ t_pc = "pretrained"
    /\ IF cfg.pretrained = None
       THEN /\ t_pc' = "prepare"
            /\ UNCHANGED <<model, t_log, t_status>>
       ELSE LET checkpoint == IF "ema" \in DOMAIN pre_file
                              THEN pre_file.ema ELSE pre_file
                model_dict == model
                kept == DOMAIN checkpoint \cap DOMAIN model_dict
                pretrained_dict == [k \in kept |-> checkpoint[k]]
            IN  /\ t_log' = [t_log EXCEPT !.ignored =
                                 @ \cup (DOMAIN checkpoint \ DOMAIN model_dict)]
                /\ IF Cardinality(DOMAIN checkpoint) = 0
                   THEN \* len(pretrained_dict) / len(checkpoint.items())
                        /\ t_pc' = "crashed"
                        /\ t_status' = "ZeroDivisionError in pretrained load"
                        /\ UNCHANGED model
                   ELSE /\ model' = [k \in DOMAIN model_dict |->
                                       IF k \in kept THEN pretrained_dict[k]
                                       ELSE model_dict[k]]
                        /\ t_pc' = "prepare"
                        /\ UNCHANGED t_status
    /\ UNCHANGED <<trainIn, ema, train_steps, log_steps, running_loss,
                   first_epoch, num_train_epochs, epoch, step, t, loss_dict,
                   prr_computed, loss, loss_calls, opt_steps, ema_updates,
                   saved>>
    /\ UNCHANGED <<sampleVars, ddpVars>>

\* main: update_ema(ema, model.module, decay=0), the monitoring variables
\* and the number of epochs
Prepare ==
    /\ t_pc = "prepare"
    /\ ema' = update_ema(ema, model, TRUE)
    /\ train_steps' = 0
    /\ log_steps' = 0
    /\ running_loss' = 0
    /\ first_epoch' = 0
    /\ IF loader_len = 0
       THEN \* args.max_train_steps / num_update_steps_per_epoch
            /\ t_pc' = "crashed"
            /\ t_status' = "ZeroDivisionError in num_train_epochs"
            /\ UNCHANGED num_train_epochs
       ELSE /\ num_train_epochs' = Ceil(cfg.max_train_steps, loader_len)
            /\ t_pc' = "resume"
            /\ UNCHANGED t_status
    /\ UNCHANGED <<trainIn, model, epoch, step, t, loss_dict, prr_computed,
                   loss, loss_calls, opt_steps, ema_updates, saved, t_log>>
    /\ UNCHANGED <<sampleVars, ddpVars>>

\* variant: the step counter is left as it was
resume_train_steps_kept == train_steps
\* main: train_steps = 20000 after the resume load
resume_train_steps == ResumeStep

\* main: "if args.resume_from_checkpoint:" and the start of the epoch loop
Resume ==
    /\ t_pc = "resume"
    /\ IF cfg.resume_from_checkpoint = None
       THEN /\ epoch' = first_epoch
            /\ t_pc' = "epoch"
            /\ UNCHANGED <<model, train_steps, first_epoch, t_status>>
       ELSE IF strict_ok(model, res_file.ema)
       THEN /\ model' = res_file.ema
            /\ train_steps' = resume_train_steps
            /\ first_epoch' = train_steps' \div loader_len
            /\ epoch' = first_epoch'
            /\ t_pc' = "epoch"
            /\ UNCHANGED t_status
       ELSE \* load_state_dict raises on missing or unexpected keys
            /\ t_pc' = "crashed"
            /\ t_status' = "RuntimeError in resume load"
            /\ UNCHANGED <<model, train_steps, first_epoch, epoch>>
    /\ UNCHANGED <<trainIn, ema, log_steps, running_loss, num_train_epochs,
                   step, t, loss_dict, prr_computed, loss, loss_calls,
                   opt_steps, ema_updates, saved, t_log>>
    /\ UNCHANGED <<sampleVars, ddpVars>>

\* for epoch in range(first_epoch, num_train_epochs), and the end of main
EpochHead ==
    /\ t_pc = "epoch"
    /\ IF epoch < num_train_epochs
       THEN t_pc' = "batch" /\ step' = 0 /\ UNCHANGED t_status
       ELSE t_pc' = "done" /\ t_status' = "done" /\ UNCHANGED step
    /\ UNCHANGED <<trainIn, model, ema, train_steps, log_steps, running_loss,
                   first_epoch, num_train_epochs, epoch, t, loss_dict,
                   prr_computed, loss, loss_calls, opt_steps, ema_updates,
                   saved, t_log>>
    /\ UNCHANGED <<sampleVars, ddpVars>>

\* diffusion = create_diffusion(timestep_respacing=""): every timestep kept
train_num_timesteps == Len(space_timesteps(NumTimesteps, NumTimesteps))

\* variant: an upper end that is included
randint_inclusive(b) == [1..b -> 0..train_num_timesteps]
\* torch.randint(0, diffusion.num_timesteps, (x.shape[0],))
randint(b) == [1..b -> 0..(train_num_timesteps - 1)]

\* for step, video_data in enumerate(loader): encode the batch, draw t
BatchHead ==
    /\ t_pc = "batch"
    /\ IF step < loader_len
       THEN /\ t' \in randint(cfg.local_batch_size)
            /\ t_pc' = "losses"
            /\ UNCHANGED epoch
       ELSE /\ epoch' = epoch + 1
            /\ t_pc' = "epoch"
            /\ UNCHANGED t
    /\ UNCHANGED <<trainIn, model, ema, train_steps, log_steps, running_loss,
                   first_epoch, num_train_epochs, step, loss_dict,
                   prr_computed, loss, loss_calls, opt_steps, ema_updates,
                   saved, t_log, t_status>>
    /\ UNCHANGED <<sampleVars, ddpVars>>

\* diffusion.training_losses(model, x, t, model_kwargs): "loss" is the MSE
\* term plus the variational term; "prr" is the representation term, or the
\* sentinel when the mode does not compute it
training_losses(mse, vb, computed, prr) ==
    [loss |-> mse + vb, mse |-> mse, vb |-> vb,
     prr |-> IF computed THEN prr ELSE PrrSentinel]

\* loss_dict = diffusion.training_losses(model, x, t, model_kwargs)
Losses ==
    /\ t_pc = "losses"
    /\ \E mse \in MseValues, vb \in VbValues, computed \in BOOLEAN,
          prr \in PrrValues :
          /\ computed \/ prr = PrrSentinel
          /\ loss_dict' = training_losses(mse, vb, computed, prr)
          /\ prr_computed' = computed
    /\ loss_calls' = loss_calls + 1
    /\ t' = <<>>
    /\ t_pc' = "backward"
    /\ UNCHANGED <<trainIn, model, ema, train_steps, log_steps, running_loss,
                   first_epoch, num_train_epochs, epoch, step, loss,
                   opt_steps, ema_updates, saved, t_log, t_status>>
    /\ UNCHANGED <<sampleVars, ddpVars>>

\* the loss of main: loss_mse + prr_weight * loss_prr unless loss_prr == -1
final_loss(ld, w) ==
    IF ld.prr # PrrSentinel THEN Tenths(ld.loss) + w * ld.prr
    ELSE Tenths(ld.loss)

\* main: assemble the loss and call loss.backward()
Backward ==
    /\ t_pc = "backward"
    /\ loss' = final_loss(loss_dict, cfg.prr_weight)
    /\ t_pc' = "opt"
    /\ UNCHANGED <<trainIn, model, ema, train_steps, log_steps, running_loss,
                   first_epoch, num_train_epochs, epoch, step, t, loss_dict,
                   prr_computed, loss_calls, opt_steps, ema_updates, saved,
                   t_log, t_status>>
    /\ UNCHANGED <<sampleVars, ddpVars>>

\* main: clip_grad_norm_, opt.step(), lr_scheduler.step(), opt.zero_grad()
OptStep ==
    /\ t_pc = "opt"
    /\ model' = opt_step(model)
    /\ opt_steps' = opt_steps + 1
    /\ t_pc' = "ema"
    /\ UNCHANGED <<trainIn, ema, train_steps, log_steps, running_loss,
                   first_epoch, num_train_epochs, epoch, step, t, loss_dict,
                   prr_computed, loss, loss_calls, ema_updates, saved, t_log,
                   t_status>>
    /\ UNCHANGED <<sampleVars, ddpVars>>

\* main: update_ema(ema, model.module)
UpdateEma ==
    /\ t_pc = "ema"
    /\ ema' = update_ema(ema, model, FALSE)
    /\ ema_updates' = ema_updates + 1
    /\ t_pc' = "log"
    /\ UNCHANGED <<trainIn, model, train_steps, log_steps, running_loss,
                   first_epoch, num_train_epochs, epoch, step, t, loss_dict,
                   prr_computed, loss, loss_calls, opt_steps, saved, t_log,
                   t_status>>
    /\ UNCHANGED <<sampleVars, ddpVars>>

\* variant: the period is tested on the count before this step
log_due_before(n, every) == (n - 1) % every = 0
\* "if train_steps % args.log_every == 0:"
log_due(n, every) == n % every = 0

\* avg_loss: running_loss / log_steps, summed over the processes by
\* all_reduce and divided by the world size; kept as <<numerator, denominator>>
avg_loss(rl, ls) == <<rl * WorldSize, ls * WorldSize>>

\* the losses of the steps taken since the last step that ended on a
\* multiple of log_every (kept for the record, the program does not hold it)
StepsSince(n, every, since, l) ==
    IF n % every = 0 THEN <<l>> ELSE Append(since, l)

\* main: "Log loss values": the counters and, every log_every steps, the
\* log line and the reset
LogStep ==
    /\ t_pc = "log"
    /\ train_steps' = train_steps + 1
    /\ IF log_due(train_steps', cfg.log_every)
       THEN /\ t_log' = [t_log EXCEPT
                  !.nevents = @ + 1,
                  !.last = [step |-> train_steps', epoch |-> epoch,
                            total |-> avg_loss(running_loss + loss,
                                               log_steps + 1),
                            mse |-> loss_dict.mse, vb |-> loss_dict.vb,
                            prr |-> loss_dict.prr],
                  !.since = StepsSince(train_steps, cfg.log_every, @, loss)]
            /\ running_loss' = 0
            /\ log_steps' = 0
       ELSE /\ running_loss' = running_loss + loss
            /\ log_steps' = log_steps + 1
            /\ t_log' = [t_log EXCEPT
                  !.since = StepsSince(train_steps, cfg.log_every, @, loss)]
    /\ t_pc' = "ckpt"
    /\ UNCHANGED <<trainIn, model, ema, first_epoch, num_train_epochs, epoch,
                   step, t, loss_dict, prr_computed, loss, loss_calls,
                   opt_steps, ema_updates, saved, t_status>>
    /\ UNCHANGED <<sampleVars, ddpVars>>

\* main: "Save EnDora checkpoint" (rank 0), then on to the next batch
SaveCkpt ==
    /\ t_pc = "ckpt"
    /\ IF train_steps % cfg.ckpt_every = 0 /\ train_steps > 0
       THEN saved' = saved \cup {[path |-> checkpoint_path(train_steps),
                                  ema |-> ema]}
       ELSE UNCHANGED saved
    /\ step' = step + 1
    /\ loss_dict' = NoLosses
    /\ prr_computed' = FALSE
    /\ loss' = 0
    /\ t_pc' = "batch"
    /\ UNCHANGED <<trainIn, model, ema, train_steps, log_steps, running_loss,
                   first_epoch, num_train_epochs, epoch, t, loss_calls,
                   opt_steps, ema_updates, t_log, t_status>>
    /\ UNCHANGED <<sampleVars, ddpVars>>

TrainNext ==
    \/ LoadPretrained \/ Prepare \/ Resume \/ EpochHead \/ BatchHead
    \/ Losses \/ Backward \/ OptStep \/ UpdateEma \/ LogStep \/ SaveCkpt

(***************************************************************************)
(*                    THE DATA-PARALLEL PROCESSES                          *)
(* Every process runs the training loop of main on its own shard; the      *)
(* sampler gives every rank the same number of batches.  The processes     *)
(* meet in collectives only: the gradient all-reduce inside                *)
(* loss.backward(), the all-reduce of the logged loss, and dist.barrier(). *)
(***************************************************************************)
Ranks == 0..MaxRank

DDPStart ==
    /\ d_cfg \in [log_every : LogEverys, ckpt_every : CkptEverys]
    /\ d_pc = [r \in Ranks |-> "head"]
    /\ d_steps = [r \in Ranks |-> 0]
    /\ d_begun = [r \in Ranks |-> 0]
    /\ d_coll = [r \in Ranks |-> 0]
    /\ d_barriers = [r \in Ranks |-> 0]
    /\ d_files = {}

DDPIdle ==
    /\ d_cfg = [log_every |-> 1, ckpt_every |-> 1]
    /\ d_pc = [r \in Ranks |-> "idle"]
    /\ d_steps = [r \in Ranks |-> 0]
    /\ d_begun = [r \in Ranks |-> 0]
    /\ d_coll = [r \in Ranks |-> 0]
    /\ d_barriers = [r \in Ranks |-> 0]
    /\ d_files = {}

\* a collective completes for r once every rank has entered it
AllArrived(r) == \A q \in Ranks : d_coll[q] >= d_coll[r]

\* "if rank == 0:" the process that writes the checkpoint
is_writer(r) == r = 0

\* variant: no barrier after the save
barrier_absent(r) == TRUE
\* dist.barrier() returns
barrier_passed(r) == AllArrived(r)

\* the next batch of the loader: forward pass of a training step
D_BeginStep(r) ==
    /\ d_pc[r] = "head"
    /\ IF d_begun[r] < DDPSteps
       THEN /\ d_begun' = [d_begun EXCEPT ![r] = @ + 1]
            /\ d_pc' = [d_pc EXCEPT ![r] = "backward"]
       ELSE /\ d_pc' = [d_pc EXCEPT ![r] = "done"]
            /\ UNCHANGED d_begun
    /\ UNCHANGED <<d_cfg, d_steps, d_coll, d_barriers, d_files>>
    /\ UNCHANGED <<sampleVars, trainVars>>

\* loss.backward(): enter the gradient all-reduce of DDP
D_Backward(r) ==
    /\ d_pc[r] = "backward"
    /\ d_coll' = [d_coll EXCEPT ![r] = @ + 1]
    /\ d_pc' = [d_pc EXCEPT ![r] = "grad_wait"]
    /\ UNCHANGED <<d_cfg, d_steps, d_begun, d_barriers, d_files>>
    /\ UNCHANGED <<sampleVars, trainVars>>

\* gradients are averaged: opt.step(), update_ema, train_steps += 1
D_OptStep(r) ==
    /\ d_pc[r] = "grad_wait"
    /\ AllArrived(r)
    /\ d_steps' = [d_steps EXCEPT ![r] = @ + 1]
    /\ d_pc' = [d_pc EXCEPT ![r] =
                  IF d_steps'[r] % d_cfg.log_every = 0 THEN "log" ELSE "ckpt"]
    /\ UNCHANGED <<d_cfg, d_begun, d_coll, d_barriers, d_files>>
    /\ UNCHANGED <<sampleVars, trainVars>>

\* dist.all_reduce(avg_loss): enter
D_LogReduce(r) ==
    /\ d_pc[r] = "log"
    /\ d_coll' = [d_coll EXCEPT ![r] = @ + 1]
    /\ d_pc' = [d_pc EXCEPT ![r] = "log_wait"]
    /\ UNCHANGED <<d_cfg, d_steps, d_begun, d_barriers, d_files>>
    /\ UNCHANGED <<sampleVars, trainVars>>

\* dist.all_reduce(avg_loss): return, write the log line
D_LogDone(r) ==
    /\ d_pc[r] = "log_wait"
    /\ AllArrived(r)
    /\ d_pc' = [d_pc EXCEPT ![r] = "ckpt"]
    /\ UNCHANGED <<d_cfg, d_steps, d_begun, d_coll, d_barriers, d_files>>
    /\ UNCHANGED <<sampleVars, trainVars>>

\* "if train_steps % args.ckpt_every == 0 and train_steps > 0:"; the
\* writer starts torch.save
D_CkptCheck(r) ==
    /\ d_pc[r] = "ckpt"
    /\ IF d_steps[r] % d_cfg.ckpt_every = 0 /\ d_steps[r] > 0
       THEN IF is_writer(r)
            THEN /\ d_files' = d_files \cup
                       {[path |-> checkpoint_path(d_steps[r]),
                         step |-> d_steps[r], writer |-> r,
                         keys |-> {"ema"}, complete |-> FALSE]}
                 /\ d_pc' = [d_pc EXCEPT ![r] = "saving"]
            ELSE /\ d_pc' = [d_pc EXCEPT ![r] = "barrier"]
                 /\ UNCHANGED d_files
       ELSE /\ d_pc' = [d_pc EXCEPT ![r] = "head"]
            /\ UNCHANGED d_files
    /\ UNCHANGED <<d_cfg, d_steps, d_begun, d_coll, d_barriers>>
    /\ UNCHANGED <<sampleVars, trainVars>>

\* torch.save(checkpoint, checkpoint_path) returns
D_SaveDone(r) ==
    /\ d_pc[r] = "saving"
    /\ d_files' = {IF f.writer = r /\ f.step = d_steps[r]
                   THEN [f EXCEPT !.complete = TRUE] ELSE f : f \in d_files}
    /\ d_pc' = [d_pc EXCEPT ![r] = "barrier"]
    /\ UNCHANGED <<d_cfg, d_steps, d_begun, d_coll, d_barriers>>
    /\ UNCHANGED <<sampleVars, trainVars>>

\* dist.barrier(): enter
D_Barrier(r) ==
    /\ d_pc[r] = "barrier"
    /\ d_coll' = [d_coll EXCEPT ![r] = @ + 1]
    /\ d_barriers' = [d_barriers EXCEPT ![r] = @ + 1]
    /\ d_pc' = [d_pc EXCEPT ![r] = "barrier_wait"]
    /\ UNCHANGED <<d_cfg, d_steps, d_begun, d_files>>
    /\ UNCHANGED <<sampleVars, trainVars>>

\* dist.barrier(): return, on to the next batch
D_BarrierDone(r) ==
    /\ d_pc[r] = "barrier_wait"
    /\ barrier_passed(r)
    /\ d_pc' = [d_pc EXCEPT ![r] = "head"]
    /\ UNCHANGED <<d_cfg, d_steps, d_begun, d_coll, d_barriers, d_files>>
    /\ UNCHANGED <<sampleVars, trainVars>>

DDPNext ==
    \E r \in Ranks :
        \/ D_BeginStep(r) \/ D_Backward(r) \/ D_OptStep(r) \/ D_LogReduce(r)
        \/ D_LogDone(r) \/ D_CkptCheck(r) \/ D_SaveDone(r) \/ D_Barrier(r)
        \/ D_BarrierDone(r)

(***************************************************************************)
(*                          SPECIFICATIONS                                 *)
(***************************************************************************)
\* checkpoints the programs are run on: one that fits the network, one with
\* a key the network does not have
FittingDicts(tag) == {[k \in ModelKeys |-> <<tag, 0>>]}
SomeDicts(tag) == FittingDicts(tag) \cup {[k \in AllKeys |-> <<tag, 0>>]}

SampleInit == SampleStart(SomeDicts("ckpt")) /\ TrainIdle /\ DDPIdle
SpecSample == SampleInit /\ [][SampleNext]_vars

TrainInit ==
    /\ TrainStart({None}, FittingDicts("pre"),
                  FittingDicts("res") \cup FittingDicts("res2"), {TRUE})
    /\ SampleIdle /\ DDPIdle
SpecTrain == TrainInit /\ [][TrainNext]_vars

DDPInit == DDPStart /\ SampleIdle /\ TrainIdle
SpecDDP == DDPInit /\ [][DDPNext]_vars

\* SpecLoad: the programs up to and including their checkpoint loads, over
\* every state dict a checkpoint may hold.
LoadInit ==
    \/ /\ TrainStart({None, "pre.pt"}, StateDicts("pre"), StateDicts("res"),
                     BOOLEAN)
       /\ cfg.log_every = 1 /\ cfg.ckpt_every = 1 /\ cfg.local_batch_size = 1
       /\ cfg.max_train_steps \in {1, ResumeStep + 1}
       /\ loader_len = 1
       /\ SampleIdle /\ DDPIdle
    \/ /\ SampleStart(StateDicts("ckpt"))
       /\ args.sample_method = "ddim" /\ args.num_sampling_steps = 1
       /\ args.cfg_scale = Tenths(1)
       /\ TrainIdle /\ DDPIdle
LoadNext ==
    \/ LoadPretrained \/ Prepare \/ Resume
    \/ Main_cli \/ CheckCkpt \/ BuildModel \/ LoadCkpt
SpecLoad == LoadInit /\ [][LoadNext]_vars

(***************************************************************************)
(*                              CLAIMS                                     *)
(***************************************************************************)

\* C1: whenever no checkpoint path is supplied (args.ckpt is None, or --ckpt
\* is omitted and its default "" is used), the sampling process exits with a
\* non-zero status before the model is built, before any checkpoint load and
\* before any sampling step.
C1_MissingCkptExitsFirst ==
    (s_pc \notin {"idle", "cli"} /\ args.ckpt \in {None, ""}) =>
        /\ ~model_built
        /\ calls = {}
        /\ s_pc \in {"main", "exited"}
        /\ s_pc = "exited" => exit_status \notin {NoStatus, 0}

\* C2: the guidance mixer is used if and only if cfg_scale > 1.0; for every
\* scale <= 1.0 each reverse step calls the plain forward on an undoubled
\* batch and the prediction is exactly the conditional prediction; the mixer
\* runs on a doubled batch whose second label is the null label.
C2_GuidanceOnlyAboveOne ==
    /\ args.cfg_scale <= Tenths(1) =>
          /\ \A c \in calls : c = <<"forward", 1>>
          /\ calls # {} => pred = Tenths(eps[1])
    /\ args.cfg_scale > Tenths(1) =>
          \A c \in calls : c = <<"forward_with_cfg", 2>>
    /\ s_pc \in {"sample", "loop", "post"} =>
          /\ sample_fn = "forward_with_cfg" <=> args.cfg_scale > Tenths(1)
          /\ sample_fn = "forward_with_cfg" =>
                Len(z) = 2 /\ model_kwargs.y[2] = NullLabel
          /\ sample_fn = "forward" => Len(z) = 1 /\ model_kwargs.y = <<>>

\* C2 witness: a run at scale exactly 1.0 has taken reverse steps and written
\* a video
C2_Witness ==
    /\ args.cfg_scale = Tenths(1)
    /\ calls # {}
    /\ nwrites > 0

\* what a tolerant load of state dict sd into network m leaves in m
IntersectionLoad(m, sd) ==
    [k \in DOMAIN m |-> IF k \in DOMAIN sd THEN sd[k] ELSE m[k]]

\* C3: every checkpoint load (pretrained, resume, sampling) tolerates missing
\* and extra keys: exactly the keys in the intersection are loaded, every
\* other checkpoint key is logged as ignored, parameters absent from the
\* checkpoint keep their initial values, and the load never aborts.
C3_LoadsTolerateKeys ==
    /\ t_status \notin {"ZeroDivisionError in pretrained load",
                        "RuntimeError in resume load"}
    /\ (t_pc = "prepare" /\ cfg.pretrained # None) =>
          LET sd == IF "ema" \in DOMAIN pre_file THEN pre_file.ema
                    ELSE pre_file
          IN  /\ model = IntersectionLoad(FreshModel, sd)
              /\ t_log.ignored = DOMAIN sd \ ModelKeys
    /\ (t_pc = "epoch" /\ cfg.pretrained = None
        /\ cfg.resume_from_checkpoint # None) =>
          /\ model = IntersectionLoad(FreshModel, res_file.ema)
          /\ t_log.ignored = DOMAIN res_file.ema \ ModelKeys
    /\ ~(s_pc = "exited" /\ model_built /\ args.ckpt = "ckpt.pt")
    /\ s_pc = "clip" =>
          /\ s_model = IntersectionLoad(FreshModel, ckpt_file.ema)
          /\ s_log = DOMAIN ckpt_file.ema \ ModelKeys

\* positive multiples of ckpt_every up to n
CkptPoints(n) == {k \in 1..n : k % d_cfg.ckpt_every = 0}

\* C4: at every step where train_steps is a positive multiple of ckpt_every
\* only rank 0 writes the checkpoint file (the EMA under key "ema"), every
\* process enters the barrier of that step, no process begins the next step
\* before the write has completed, and the processes never deadlock.
C4_SingleWriterBarrier ==
    /\ \A f \in d_files :
          /\ f.writer = 0
          /\ f.keys = {"ema"}
          /\ f.step \in CkptPoints(DDPSteps)
          /\ f.path = checkpoint_path(f.step)
    /\ \A r \in Ranks :
          /\ d_barriers[r] =
                Cardinality(CkptPoints(d_steps[r])) -
                (IF d_steps[r] \in CkptPoints(DDPSteps)
                    /\ d_pc[r] \in {"log", "log_wait", "ckpt", "saving",
                                    "barrier"}
                 THEN 1 ELSE 0)
          /\ d_pc[r] \in {"barrier", "barrier_wait", "saving"} =>
                d_steps[r] \in CkptPoints(DDPSteps)
          /\ \A k \in CkptPoints(DDPSteps) :
                (d_begun[r] > k \/ (d_pc[r] \in {"head", "done"}
                                    /\ d_steps[r] = k)) =>
                   \E f \in d_files : f.step = k /\ f.complete
    /\ (\E r \in Ranks : d_pc[r] \notin {"done", "idle"}) => ENABLED DDPNext

\* C4 witness: a rank other than 0 has begun the step after a checkpoint
C4_Witness ==
    \E r \in Ranks \ {0} : \E f \in d_files :
        f.complete /\ d_begun[r] > f.step /\ d_barriers[r] > 0

\* C5: the back-propagated loss is MSE + variational + prr_weight x
\* representation term when the representation term was computed, and
\* MSE + variational exactly when the mode does not compute it; a computed
\* representation term is never omitted.
C5_LossAssembly ==
    t_pc = "opt" =>
        loss = IF prr_computed
               THEN Tenths(loss_dict.mse + loss_dict.vb)
                    + cfg.prr_weight * loss_dict.prr
               ELSE Tenths(loss_dict.mse + loss_dict.vb)

\* the sampler variants main dispatches to
Samplers == {"ddim", "ddpm"}

\* C6: for ddim and ddpm and any respaced step count S, a sampling run visits
\* the timesteps of the respaced schedule in strictly decreasing order, takes
\* exactly S reverse steps, feeds each step's latent to the next, and ends
\* only after the step at t = 0.
C6_ReverseLoop ==
    LET S == args.num_sampling_steps
        schedule == space_timesteps(NumTimesteps, S)
    IN  /\ \A a, b \in 1..Len(visited) : a < b => visited[a].t > visited[b].t
        /\ \A a \in 1..Len(visited) : visited[a].t = schedule[S + 1 - a]
        /\ s_pc = "loop" =>
              /\ Len(visited) < S
              /\ i = S - 1 - Len(visited)
              /\ \A j \in 1..Len(x) : x[j][3] = Len(visited) /\ x[j][2] = idx
        /\ (s_pc = "post" /\ args.sample_method \in Samplers) =>
              /\ Len(visited) = S
              /\ visited[S].t = 0
              /\ \A j \in 1..Len(samples) :
                    samples[j][3] = S /\ samples[j][2] = idx

\* C6 witness: a respaced run (1 < S < T) of each kind has finished its loop
C6_Witness ==
    /\ s_pc = "post"
    /\ args.sample_method = "ddpm"
    /\ args.num_sampling_steps > 1
    /\ args.num_sampling_steps < NumTimesteps
    /\ Len(visited) = args.num_sampling_steps
    /\ idx > FirstClip

\* C7: started without resume, the training loop ends only by reaching
\* max_train_steps optimizer steps and never performs more than that, for
\* every dataloader length.
C7_StopsAtMaxTrainSteps ==
    (t_pc # "idle" /\ cfg.resume_from_checkpoint = None) =>
        /\ opt_steps <= cfg.max_train_steps
        /\ t_pc = "done" => opt_steps = cfg.max_train_steps

\* C8: a sampling run handles the clip indices in increasing order and writes
\* exactly one video file per clip index, each to its own path derived from
\* the index and from the latent sampled in that iteration, for every value
\* of sample_method the program takes.
C8_OneVideoPerClip ==
    /\ \A f \in files :
          /\ f.path = video_save_path(f.clip)
          /\ f.latent[2] = f.clip
    /\ \A f, g \in files : f.path = g.path => f = g
    /\ nwrites = Cardinality(files)
    /\ s_pc \in {"clip", "sample", "loop", "post"} =>
          {f.clip : f \in files} = FirstClip..(idx - 1)
    /\ (s_pc = "done" \/ (s_pc = "exited" /\ idx >= FirstClip)) =>
          {f.clip : f \in files} = FirstClip..LastClip

\* C9: every training step invokes the loss routine exactly once, with one
\* timestep index per batch element, each an integer in [0, T) for T the
\* number of timesteps of the un-respaced schedule.
C9_TimestepsInRange ==
    /\ t_pc = "losses" =>
          /\ Len(t) = cfg.local_batch_size
          /\ \A j \in 1..Len(t) : t[j] >= 0 /\ t[j] < NumTimesteps
    /\ loss_calls = opt_steps + (IF t_pc \in {"backward", "opt"} THEN 1 ELSE 0)
    /\ t_pc \in {"backward", "opt", "ema", "log", "ckpt"} => loss_calls > 0

\* C9 witness: a later step of a batch of two draws the last timestep
C9_Witness ==
    /\ t_pc = "losses"
    /\ opt_steps >= 1
    /\ Len(t) = 2
    /\ t[1] = NumTimesteps - 1
    /\ t[2] = 0

\* C10: when the first training step begins the EMA equals the live model's
\* parameters, on a fresh start and on a resume; afterwards the EMA is
\* updated exactly once per optimizer step, after that step's update.
C10_EmaSynced ==
    /\ (t_pc = "losses" /\ opt_steps = 0) => ema = <<model>>
    /\ ema_updates = opt_steps - (IF t_pc = "ema" THEN 1 ELSE 0)
    /\ ema_updates > 0 /\ t_pc # "ema" => ema[Len(ema)] = model

\* the step counter a run starts from
StartStep == IF cfg.resume_from_checkpoint = None THEN 0 ELSE ResumeStep

\* the values of train_steps, after the start, at which a period is due
DuePoints(every) == {k \in (StartStep + 1)..train_steps : k % every = 0}

\* C11: on a resume train_steps starts at 20000 whatever checkpoint is
\* loaded, training restarts at epoch 20000 // len(loader), train_steps is
\* 20000 plus the optimizer steps taken since, checkpoint names and the log
\* and checkpoint trigger points follow that count, and no step is taken at
\* all when 20000 // len(loader) >= ceil(max_train_steps / len(loader)).
C11_ResumeCountsFrom20000 ==
    (cfg.resume_from_checkpoint # None
     /\ t_pc \in {"epoch", "batch", "losses", "backward", "opt", "ema", "log",
                  "ckpt", "done"}) =>
        /\ model[CHOOSE k \in ModelKeys : TRUE][1] \in {"res", "res2"}
        /\ first_epoch = ResumeStep \div loader_len
        /\ epoch >= first_epoch
        /\ train_steps = ResumeStep + opt_steps
                         - (IF t_pc \in {"ema", "log"} THEN 1 ELSE 0)
        /\ {f.path : f \in saved} =
              {checkpoint_path(k) :
                 k \in DuePoints(cfg.ckpt_every)
                       \ (IF t_pc = "ckpt" THEN {train_steps} ELSE {})}
        /\ t_log.nevents = Cardinality(DuePoints(cfg.log_every))
        /\ t_log.nevents > 0 =>
              /\ t_log.last.step \in DuePoints(cfg.log_every)
              /\ \A k \in DuePoints(cfg.log_every) : k <= t_log.last.step
        /\ ResumeStep \div loader_len
              >= Ceil(cfg.max_train_steps, loader_len) =>
              /\ opt_steps = 0 /\ loss_calls = 0
              /\ t_pc \in {"epoch", "done"}

\* C11 witness: a resumed run has taken two steps, logged and saved
C11_Witness ==
    /\ cfg.resume_from_checkpoint # None
    /\ res_file.ema = [k \in ModelKeys |-> <<"res2", 0>>]
    /\ opt_steps >= 2
    /\ train_steps = ResumeStep + 2
    /\ t_log.nevents > 0
    /\ \E f \in saved : f.path = checkpoint_path(ResumeStep + 2)

\* C11 second case reached: a resumed run that ends without a step
C11_NoStepRun ==
    /\ cfg.resume_from_checkpoint # None
    /\ t_pc = "done"
    /\ opt_steps = 0

\* the sum of a sequence of numbers
RECURSIVE SumSeq(_)
SumSeq(q) == IF Len(q) = 0 THEN 0 ELSE q[1] + SumSeq(SubSeq(q, 2, Len(q)))

\* the training process is inside or after its loop
InLoop == t_pc \in {"epoch", "batch", "losses", "backward", "opt", "ema",
                    "log", "ckpt", "done"}

\* the state right after a step that wrote a log line
JustLogged == t_pc = "ckpt" /\ train_steps % cfg.log_every = 0

C12_ShortWindow ==
    /\ JustLogged
    /\ cfg.resume_from_checkpoint # None
    /\ t_log.nevents = 1
    /\ Len(t_log.since) < cfg.log_every

====
